---- MODULE Spec2Model ----
(***************************************************************************)
(* rubi: ruby annotation of dictionary terms in Markdown.                  *)
(*                                                                         *)
(* The model follows ProcessMarkdown and ApplyPatches.  A document is a    *)
(* byte buffer, written as a sequence of one-character strings; offsets    *)
(* are Go offsets (0-based, half-open).  ProcessMarkdown is a walk over    *)
(* the parse tree, one step per node visited, followed by the return.      *)
(***************************************************************************)
EXTENDS Integers, Sequences, FiniteSets, TLC

(* ------------------------------ bounds -------------------------------- *)

\* A document is the concatenation of at most MaxFrags fragments.
MaxFrags == 3

(* --------------------------- byte helpers ----------------------------- *)

\* Go: s[a:b]
Slice(s, a, b) == SubSeq(s, a + 1, b)

\* Go: s[i]
At(s, i) == s[i + 1]

Min(S) == CHOOSE x \in S : \A y \in S : x <= y

\* strings.HasPrefix(s[p:], lit)
HasPrefixAt(s, p, lit) ==
    /\ p >= 0
    /\ p + Len(lit) <= Len(s)
    /\ Slice(s, p, p + Len(lit)) = lit

\* The characters \w matches in Go's regexp (ASCII only).
WordChars ==
    { "a","b","c","d","e","f","g","h","i","j","k","l","m",
      "n","o","p","q","r","s","t","u","v","w","x","y","z",
      "A","B","C","D","E","F","G","H","I","J","K","L","M",
      "N","O","P","Q","R","S","T","U","V","W","X","Y","Z",
      "0","1","2","3","4","5","6","7","8","9","_" }

IsWordChar(c) == c \in WordChars

\* The regexp assertion \b at offset p of t: exactly one of the bytes on the
\* two sides of p is a word character (outside the text counts as non-word).
WordBoundary(t, p) ==
    LET before == p > 0 /\ IsWordChar(At(t, p - 1))
        after  == p < Len(t) /\ IsWordChar(At(t, p))
    IN  before # after

\* End of the run of word characters that starts at s (greedy \w+).
WordRunEnd(t, s) ==
    Min({ e \in s..Len(t) : e = Len(t) \/ ~IsWordChar(At(t, e)) })

(* ----------------------------- html.EscapeString ---------------------- *)

\* No escaping at all.
EscapeCharVerbatim(c) == << c >>

EscapeChar(c) ==
    CASE c = "&"  -> << "&","a","m","p",";" >>
      [] c = "'"  -> << "&","#","3","9",";" >>
      [] c = "<"  -> << "&","l","t",";" >>
      [] c = ">"  -> << "&","g","t",";" >>
      [] c = "\"" -> << "&","#","3","4",";" >>
      [] OTHER    -> << c >>

RECURSIVE EscapeString(_)
EscapeString(s) ==
    IF s = << >> THEN << >>
    ELSE EscapeChar(Head(s)) \o EscapeString(Tail(s))

\* fmt.Sprintf("<ruby>%s<rt>%s</rt></ruby>", safeWord, safeYomi)
RubyTag(safeWord, safeYomi) ==
    << "<","r","u","b","y",">" >> \o safeWord \o
    << "<","r","t",">" >> \o safeYomi \o
    << "<","/","r","t",">","<","/","r","u","b","y",">" >>

(* ------------------------------ dictionary ---------------------------- *)

\* The literal marker of manual mode.
Marker == << ":","r","u","b","i" >>

TermGo   == << "G","o" >>
TermDotN == << ".","N" >>
TermN    == << "N" >>

\* termMap: term -> Term.Yomi.  Terms and yomi are non-empty and terms are
\* unique, as LoadDictionary guarantees.  One yomi holds a character that
\* html.EscapeString rewrites; one term starts with a non-word character
\* (the repository's dictionary sorter has a group for such terms).
termMap ==
    [ k \in { TermGo, TermDotN, TermN } |->
        CASE k = TermGo   -> << "g","&" >>
          [] k = TermDotN -> << "d","n" >>
          [] k = TermN    -> << "n" >> ]

\* The orders in which `for termStr, termData := range termMap` can visit
\* the keys: Go leaves map iteration order unspecified.
TermOrders ==
    { o \in [ 1..Cardinality(DOMAIN termMap) -> DOMAIN termMap ] :
        \A i, j \in DOMAIN o : i # j => o[i] # o[j] }

(* ------------------------------ regexps ------------------------------- *)

\* `(\w+):rubi\W`: the marker must be followed by a non-word byte, so a
\* marker at the very end of the text does not match.
RubiMatchesAtNeedsFollower(t, s) ==
    /\ s < Len(t)
    /\ IsWordChar(At(t, s))
    /\ HasPrefixAt(t, WordRunEnd(t, s), Marker)
    /\ WordRunEnd(t, s) + Len(Marker) < Len(t)
    /\ ~IsWordChar(At(t, WordRunEnd(t, s) + Len(Marker)))

\* rubiRegex = `(\w+):rubi\b` matches with its first byte at offset s.
\* \w+ is followed by ':', so it ends where the run of word characters ends.
RubiMatchesAt(t, s) ==
    /\ s < Len(t)
    /\ IsWordChar(At(t, s))
    /\ HasPrefixAt(t, WordRunEnd(t, s), Marker)
    /\ WordBoundary(t, WordRunEnd(t, s) + Len(Marker))

\* The search resumed one byte after the start of a match instead of at its
\* end: matches overlap.
RECURSIVE RubiFindAllFromOverlapping(_, _)
RubiFindAllFromOverlapping(t, pos) ==
    LET starts == { s \in pos..(Len(t) - 1) : RubiMatchesAt(t, s) }
    IN  IF starts = {} THEN << >>
        ELSE LET s == Min(starts)
                 e == WordRunEnd(t, s)
             IN  << [ m0 |-> s, m1 |-> e + Len(Marker), m2 |-> s, m3 |-> e ] >>
                 \o RubiFindAllFromOverlapping(t, s + 1)

\* rubiRegex.FindAllStringSubmatchIndex(t, -1), searching from offset pos:
\* leftmost matches that do not overlap.  A match is the record of Go's index
\* slice: m0..m1 the whole match, m2..m3 the group (\w+).
RECURSIVE RubiFindAllFrom(_, _)
RubiFindAllFrom(t, pos) ==
    LET starts == { s \in pos..(Len(t) - 1) : RubiMatchesAt(t, s) }
    IN  IF starts = {} THEN << >>
        ELSE LET s == Min(starts)
                 e == WordRunEnd(t, s)
             IN  << [ m0 |-> s, m1 |-> e + Len(Marker), m2 |-> s, m3 |-> e ] >>
                 \o RubiFindAllFrom(t, e + Len(Marker))

rubiRegex(t) == RubiFindAllFrom(t, 0)

\* `\b(TERM)\b` with TERM = regexp.QuoteMeta(termStr), i.e. the literal term,
\* matches with its first byte at offset s.
ScanMatchesAt(t, s, termStr) ==
    /\ HasPrefixAt(t, s, termStr)
    /\ WordBoundary(t, s)
    /\ WordBoundary(t, s + Len(termStr))

RECURSIVE ScanFindAllFrom(_, _, _)
ScanFindAllFrom(t, pos, termStr) ==
    LET starts == { s \in pos..(Len(t) - 1) : ScanMatchesAt(t, s, termStr) }
    IN  IF starts = {} THEN << >>
        ELSE LET s == Min(starts)
                 e == s + Len(termStr)
             IN  << [ m0 |-> s, m1 |-> e, m2 |-> s, m3 |-> e ] >>
                 \o ScanFindAllFrom(t, e, termStr)

scanTermRegex(t, termStr) == ScanFindAllFrom(t, 0, termStr)

(* --------------------- the parse tree (goldmark) ---------------------- *)

\* md.Parser().Parse(text.NewReader(content)) for the Markdown that the
\* fragments below can form.  The tree is kept as the sequence of its nodes
\* in the order ast.Walk enters them; a node records its kind, the byte range
\* start..stop of its source (for a Text node its Segment) and the number
\* desc of its descendants, which are the nodes that follow it directly.

Node(kind, start, stop, desc) ==
    [ kind |-> kind, start |-> start, stop |-> stop, desc |-> desc ]

Newline  == "\n"
\* The backtick byte (a TLA+ string cannot hold the character itself).
BQ       == "0x60"
Fence    == << BQ, BQ, BQ >>
DivOpen  == << "<","d","i","v" >>
InlineSpecials == { BQ, "<", "[" }

\* Offset of the end of the line that holds offset p (its newline or EOF).
LineEnd(c, p) == Min({ q \in p..Len(c) : q = Len(c) \/ At(c, q) = Newline })

\* Offset of the first byte b at or after p and before q, or q if there is none.
IndexFrom(c, p, q, b) == Min({ r \in p..q : r = q \/ At(c, r) = b })

\* Length of the run of backticks at p (inside a line that ends at q).
BacktickRun(c, p, q) ==
    Min({ r \in p..q : r = q \/ At(c, r) # BQ }) - p

\* A code span opened by n backticks closes at the next run of exactly n
\* backticks; the result is the offset of that run, or q if there is none.
CodeSpanClose(c, p, q, n) ==
    Min({ r \in p..q :
            \/ r = q
            \/ /\ At(c, r) = BQ
               /\ At(c, r - 1) # BQ
               /\ BacktickRun(c, r, q) = n })

\* <name> or </name>: the offset of the closing '>' of a tag that opens at p,
\* or q if the bytes at p are not a tag.
TagClose(c, p, q) ==
    LET gt    == IndexFrom(c, p + 1, q, ">")
        first == IF p + 1 < q /\ At(c, p + 1) = "/" THEN p + 2 ELSE p + 1
    IN  IF /\ gt < q
           /\ first < gt
           /\ \A k \in first..(gt - 1) : IsWordChar(At(c, k)) /\ At(c, k) # "_"
        THEN gt ELSE q

\* The inline nodes of the bytes p..q of a paragraph line.
RECURSIVE ParseInline(_, _, _)
ParseInline(c, p, q) ==
    IF p >= q THEN << >>
    ELSE
    LET ch == At(c, p) IN
    IF ch = BQ /\ CodeSpanClose(c, p + BacktickRun(c, p, q), q, BacktickRun(c, p, q)) < q
    THEN \* code span: the bytes between the backtick runs are its Text child
         LET n == BacktickRun(c, p, q)
             r == CodeSpanClose(c, p + n, q, n)
         IN  << Node("CodeSpan", p, r + n, 1), Node("Text", p + n, r, 0) >>
             \o ParseInline(c, r + n, q)
    ELSE IF ch = "<" /\ TagClose(c, p, q) < q
    THEN \* inline raw HTML: one tag, no children
         << Node("RawHTML", p, TagClose(c, p, q) + 1, 0) >>
         \o ParseInline(c, TagClose(c, p, q) + 1, q)
    ELSE IF /\ ch = "["
            /\ IndexFrom(c, p, q, "]") + 1 < q
            /\ At(c, IndexFrom(c, p, q, "]") + 1) = "("
            /\ IndexFrom(c, IndexFrom(c, p, q, "]"), q, ")") < q
    THEN \* inline link [label](destination): the children are the label's
         \* nodes; the destination is a field of the Link, not a node
         LET rb    == IndexFrom(c, p, q, "]")
             rp    == IndexFrom(c, rb, q, ")")
             label == ParseInline(c, p + 1, rb)
         IN  << Node("Link", p, rp + 1, Len(label)) >> \o label
             \o ParseInline(c, rp + 1, q)
    ELSE \* plain text up to the next byte that can open an inline construct
         LET e == Min({ r \in (p + 1)..q : r = q \/ At(c, r) \in InlineSpecials })
         IN  << Node("Text", p, e, 0) >> \o ParseInline(c, e, q)

\* p is the start of a line after an opening fence: the offset just after
\* the line of the closing fence, or EOF if the block is never closed.
RECURSIVE FenceEnd(_, _)
FenceEnd(c, p) ==
    IF p >= Len(c) THEN Len(c)
    ELSE IF HasPrefixAt(c, p, Fence) THEN LineEnd(c, p)
    ELSE IF LineEnd(c, p) = Len(c) THEN Len(c)
    ELSE FenceEnd(c, LineEnd(c, p) + 1)

\* p is the start of a line of an HTML block: the block runs to the next
\* blank line or EOF.
RECURSIVE HTMLBlockEnd(_, _)
HTMLBlockEnd(c, p) ==
    IF p >= Len(c) \/ LineEnd(c, p) = p THEN p
    ELSE IF LineEnd(c, p) = Len(c) THEN Len(c)
    ELSE HTMLBlockEnd(c, LineEnd(c, p) + 1)

\* An HTML block starts at a line that opens with a block-level tag name
\* (CommonMark start condition 6); <i> is not one, and a line that goes on
\* after its first tag does not meet start condition 7.
StartsHTMLBlock(c, p) == HasPrefixAt(c, p, DivOpen)

\* The block nodes from the line that starts at p, each followed by its
\* descendants.
RECURSIVE ParseBlocks(_, _)
ParseBlocks(c, p) ==
    IF p >= Len(c) THEN << >>
    ELSE
    LET q == LineEnd(c, p) IN
    IF q = p THEN ParseBlocks(c, p + 1)
    ELSE IF HasPrefixAt(c, p, Fence)
    THEN LET e == IF q = Len(c) THEN q ELSE FenceEnd(c, q + 1)
         IN  << Node("FencedCodeBlock", p, e, 0) >> \o ParseBlocks(c, e)
    ELSE IF StartsHTMLBlock(c, p)
    THEN LET e == HTMLBlockEnd(c, p)
         IN  << Node("HTMLBlock", p, e, 0) >> \o ParseBlocks(c, e)
    ELSE LET inl == ParseInline(c, p, q)
         IN  << Node("Paragraph", p, q, Len(inl)) >> \o inl \o ParseBlocks(c, q)

Parse(c) ==
    LET blocks == ParseBlocks(c, 0)
    IN  << Node("Document", 0, Len(c), Len(blocks)) >> \o blocks

(* ----------------------------- documents ------------------------------ *)

\* The pieces documents are built from: a term, a separator with a second
\* term (Go,N has two terms in one text node), the marker, a term that
\* starts with a non-word character, an inline code span, an
\* inline HTML element, a link, an HTML block and a fenced code block.
\* Concatenation puts terms and markers next to word characters (GoGo,
\* :rubiGo), separators, tags, links and code.
Fragments ==
    { << "G","o" >>,
      << ",","N" >>,
      << ":","r","u","b","i" >>,
      << ".","N" >>,
      << BQ,"G","o",":","r","u","b","i",BQ >>,
      << "<","i",">","G","o",":","r","u","b","i","<","/","i",">" >>,
      << "[","G","o",":","r","u","b","i","]","(","G","o",":","r","u","b","i",")" >>,
      << "\n","\n","<","d","i","v",">","G","o",":","r","u","b","i",
         "<","/","d","i","v",">","\n","\n" >>,
      << "\n","\n",BQ,BQ,BQ,"\n","G","o",":","r","u","b","i","\n",
         BQ,BQ,BQ,"\n","\n" >> }

RECURSIVE Concat(_)
Concat(fs) == IF fs = << >> THEN << >> ELSE Head(fs) \o Concat(Tail(fs))

Documents ==
    { Concat(fs) : fs \in UNION { [ 1..n -> Fragments ] : n \in 0..MaxFrags } }

(* ------------------------------- state -------------------------------- *)

VARIABLES
    content,        \* ProcessMarkdown's argument: the document's bytes
    dryRun,         \* argument
    scan,           \* argument
    firstOnly,      \* argument
    document,       \* the parse tree, in the order ast.Walk enters the nodes
    cursor,         \* index in document of the next node the walker enters
    patches,        \* var patches []Patch
    processedTerms, \* processedTerms map[string]bool, as the set of its keys
    stderr,         \* what has been written to os.Stderr
    pc,             \* "walk" during ast.Walk, "done" once ProcessMarkdown returned;
                    \* "rewalk" and "redone" for a run on the first run's output
    ret,            \* ProcessMarkdown's results ([]byte, error); in the
                    \* specifications of the other functions, theirs
    args,           \* the arguments and the environment of the other functions
                    \* of the repository: flags, what a read or a command yields
    locals,         \* their local variables
    file,           \* the file they write: its content and whether it exists
    stdout,         \* what they have printed to os.Stdout
    trace           \* the calls they have made that reach outside the process

vars == << content, dryRun, scan, firstOnly, document, cursor, patches,
           processedTerms, stderr, pc, ret, args, locals, file, stdout, trace >>

\* The variables ProcessMarkdown and ApplyPatches do not have.
tool == << args, locals, file, stdout, trace >>

\* ProcessMarkdown reads no file, prints nothing to os.Stdout and runs no
\* command.
ToolIdle ==
    /\ args = << >>
    /\ locals = << >>
    /\ file = << >>
    /\ stdout = << >>
    /\ trace = << >>

inputs == << content, dryRun, scan, firstOnly, document >>

\* A returned ([]byte, error): isNil tells a nil slice from an empty one and
\* err is "" for a nil error.
Result(buf, isNil, err) == [ buf |-> buf, isNil |-> isNil, err |-> err ]

ErrBounds  == "invalid patch bounds"
ErrOverlap == "overlapping patches detected"

Patch(start, end, newText) == [ Start |-> start, End |-> end, NewText |-> newText ]

(* ---------------------------- ApplyPatches ---------------------------- *)

\* The sort left out: the patches stay in the order they were generated in.
SortedOrdersAsGiven(ps, S) == { ps }

\* sort.Slice(patches, less by Start): sort.Slice is not stable, so patches
\* with equal Start can come out in any order.  The set of the orders the
\* indices S of ps can be sorted into.
RECURSIVE SortedOrders(_, _)
SortedOrders(ps, S) ==
    IF S = {} THEN { << >> }
    ELSE LET m == Min({ ps[i].Start : i \in S })
         IN  UNION { { << ps[i] >> \o r : r \in SortedOrders(ps, S \ {i}) } :
                     i \in { j \in S : ps[j].Start = m } }

\* if p.Start < 0 || p.End > len(original) || p.Start > p.End
BoundsInvalid(original, p) ==
    p.Start < 0 \/ p.End > Len(original) \/ p.Start > p.End

\* The overlap test against the previous patch's Start, which the sort has
\* already put first.
OverlapsPreviousByStart(sorted, i) ==
    i > 1 /\ sorted[i].Start < sorted[i - 1].Start

\* if i > 0 && p.Start < patches[i-1].End
OverlapsPrevious(sorted, i) ==
    i > 1 /\ sorted[i].Start < sorted[i - 1].End

\* The validation loop without its overlap test.
RECURSIVE ValidatePatchesBoundsOnly(_, _, _)
ValidatePatchesBoundsOnly(original, sorted, i) ==
    IF i > Len(sorted) THEN ""
    ELSE IF BoundsInvalid(original, sorted[i]) THEN ErrBounds
    ELSE ValidatePatchesBoundsOnly(original, sorted, i + 1)

\* The validation loop from index i on: the error it returns, "" if none.
RECURSIVE ValidatePatches(_, _, _)
ValidatePatches(original, sorted, i) ==
    IF i > Len(sorted) THEN ""
    ELSE IF BoundsInvalid(original, sorted[i]) THEN ErrBounds
    ELSE IF OverlapsPrevious(sorted, i) THEN ErrOverlap
    ELSE ValidatePatches(original, sorted, i + 1)

\* lastIndex set one past the end of the patch.
NextLastIndexPastEnd(p) == p.End + 1

\* lastIndex = p.End
NextLastIndex(p) == p.End

\* One turn of the reconstruction loop with the two writes exchanged.
WritePatchNewTextFirst(original, p, lastIndex) ==
    p.NewText \o Slice(original, lastIndex, p.Start)

\* buf.Write(original[lastIndex:p.Start]); buf.Write(p.NewText)
WritePatch(original, p, lastIndex) ==
    Slice(original, lastIndex, p.Start) \o p.NewText

\* The end of the reconstruction without the write of the remaining bytes.
WriteRestNothing(original, lastIndex) == << >>

\* buf.Write(original[lastIndex:])
WriteRest(original, lastIndex) == Slice(original, lastIndex, Len(original))

\* The reconstruction loop with lastIndex = p.Start in place of p.End: the
\* replaced bytes are written again after the new text.
RECURSIVE BuildBufferKeepsReplaced(_, _, _, _)
BuildBufferKeepsReplaced(original, sorted, i, lastIndex) ==
    IF i > Len(sorted) THEN Slice(original, lastIndex, Len(original))
    ELSE Slice(original, lastIndex, sorted[i].Start)
         \o sorted[i].NewText
         \o BuildBufferKeepsReplaced(original, sorted, i + 1, sorted[i].Start)

\* The reconstruction loop from index i on, with lastIndex as it stands.
RECURSIVE BuildBuffer(_, _, _, _)
BuildBuffer(original, sorted, i, lastIndex) ==
    IF i > Len(sorted) THEN WriteRest(original, lastIndex)
    ELSE WritePatch(original, sorted[i], lastIndex)
         \o BuildBuffer(original, sorted, i + 1, NextLastIndex(sorted[i]))

\* The slice expressions the reconstruction evaluates from index i on:
\* original[lastIndex:p.Start] for each patch, with the End of the patch
\* beside it, and original[lastIndex:] after the loop.
RECURSIVE SlicesTaken(_, _, _, _)
SlicesTaken(original, sorted, i, lastIndex) ==
    IF i > Len(sorted)
    THEN << [ low |-> lastIndex, high |-> Len(original), End |-> Len(original) ] >>
    ELSE << [ low |-> lastIndex, high |-> sorted[i].Start, End |-> sorted[i].End ] >>
         \o SlicesTaken(original, sorted, i + 1, NextLastIndex(sorted[i]))

\* return buf.Bytes(), nil: a bytes.Buffer that was written no byte still
\* has a nil slice, so an empty result is a nil one.
Bytes(buf) == Result(buf, buf = << >>, "")

\* ApplyPatches handing the original back beside the validation error.
ApplyPatchesKeepsBuffer(original, ps) ==
    { IF ValidatePatches(original, sorted, 1) # ""
      THEN Result(original, FALSE, ValidatePatches(original, sorted, 1))
      ELSE Bytes(BuildBuffer(original, sorted, 1, 0)) :
      sorted \in SortedOrders(ps, DOMAIN ps) }

\* The results ApplyPatches(original, ps) can return.
ApplyPatches(original, ps) ==
    { IF ValidatePatches(original, sorted, 1) # ""
      THEN Result(<< >>, TRUE, ValidatePatches(original, sorted, 1))
      ELSE Bytes(BuildBuffer(original, sorted, 1, 0)) :
      sorted \in SortedOrders(ps, DOMAIN ps) }

(* --------------------------- the Text case ---------------------------- *)

\* The walker's accumulated effects: patches, processedTerms and stderr.
Acc(ps, proc, log) == [ patches |-> ps, processed |-> proc, stderr |-> log ]

\* if firstOnly && processedTerms[word] { continue }
AlreadyProcessed(processed, word) == firstOnly /\ word \in processed

\* The assignment processedTerms[word] = true left out.
MarkProcessedForgets(processed, word) == processed

\* processedTerms[word] = true
MarkProcessed(processed, word) == processed \cup { word }

\* Scan mode: the patch for one match, Patch{fullMatchStart, fullMatchEnd, newText}.
ScanPatch(segStart, match, word, yomi) ==
    Patch(segStart + match.m0, segStart + match.m1,
          RubyTag(EscapeString(word), EscapeString(yomi)))

\* Scan mode, `for _, match := range matches` for one term.
RECURSIVE ScanMatchLoop(_, _, _, _, _)
ScanMatchLoop(matches, textStr, segStart, termStr, acc) ==
    IF matches = << >> THEN acc
    ELSE
    LET match == Head(matches)
        word  == Slice(textStr, match.m2, match.m3)
    IN  IF AlreadyProcessed(acc.processed, word)
        THEN ScanMatchLoop(Tail(matches), textStr, segStart, termStr, acc)
        ELSE ScanMatchLoop(Tail(matches), textStr, segStart, termStr,
               Acc(Append(acc.patches, ScanPatch(segStart, match, word, termMap[termStr])),
                   MarkProcessed(acc.processed, word),
                   IF dryRun
                   THEN Append(acc.stderr,
                          [ msg |-> "GENERATING PATCH (Scan Mode)", word |-> word ])
                   ELSE acc.stderr))

\* Scan mode, `for termStr, termData := range termMap`, visiting the terms
\* in the given order.
RECURSIVE ScanTermLoop(_, _, _, _)
ScanTermLoop(order, textStr, segStart, acc) ==
    IF order = << >> THEN acc
    ELSE ScanTermLoop(Tail(order), textStr, segStart,
            ScanMatchLoop(scanTermRegex(textStr, Head(order)), textStr, segStart,
                          Head(order), acc))

\* Manual mode, word found, with the patch ending at wordEnd: the marker
\* stays behind the ruby markup.
ManualKnownPatchWordOnly(segStart, match, word, yomi) ==
    Patch(segStart + match.m0, segStart + match.m3,
          RubyTag(EscapeString(word), EscapeString(yomi)))

\* Manual mode, word found: Patch{fullMatchStart, fullMatchEnd, newText}.
ManualKnownPatch(segStart, match, word, yomi) ==
    Patch(segStart + match.m0, segStart + match.m1,
          RubyTag(EscapeString(word), EscapeString(yomi)))

\* Manual mode, word not found, with the patch starting at fullMatchStart:
\* the word is removed together with the marker.
ManualUnknownPatchWholeMatch(segStart, match) ==
    Patch(segStart + match.m0, segStart + match.m1, << >>)

\* Manual mode, word not found: Patch{wordEnd, fullMatchEnd, ""}.
ManualUnknownPatch(segStart, match) ==
    Patch(segStart + match.m3, segStart + match.m1, << >>)

\* Manual mode, `for _, match := range matches`.
RECURSIVE ManualMatchLoop(_, _, _)
ManualMatchLoop(matches, segStart, acc) ==
    IF matches = << >> THEN acc
    ELSE
    LET match == Head(matches)
        wordStart == segStart + match.m2
        wordEnd   == segStart + match.m3
        originalWordStr == Slice(content, wordStart, wordEnd)
    IN  IF originalWordStr \in DOMAIN termMap
        THEN ManualMatchLoop(Tail(matches), segStart,
               Acc(Append(acc.patches,
                     ManualKnownPatch(segStart, match, originalWordStr,
                                      termMap[originalWordStr])),
                   acc.processed,
                   IF dryRun
                   THEN Append(acc.stderr,
                          [ msg  |-> "GENERATING PATCH (Manual Mode)",
                            word |-> originalWordStr ])
                   ELSE acc.stderr))
        ELSE ManualMatchLoop(Tail(matches), segStart,
               Acc(Append(acc.patches, ManualUnknownPatch(segStart, match)),
                   acc.processed,
                   Append(acc.stderr,
                     [ msg |-> "WARNING (Manual Mode)", word |-> originalWordStr ])))

(* ------------------------------ actions ------------------------------- *)

\* The exclusion switch with the inline code case left out.
OpaqueKindsWithoutCodeSpan == { "CodeBlock", "FencedCodeBlock", "HTMLBlock", "RawHTML" }

\* The node kinds whose children the walker skips.
OpaqueKinds == { "CodeBlock", "FencedCodeBlock", "HTMLBlock", "RawHTML", "CodeSpan" }

Init ==
    /\ content \in Documents
    /\ dryRun \in BOOLEAN
    /\ scan \in BOOLEAN
    /\ firstOnly \in BOOLEAN
    /\ firstOnly => scan          \* handleMainCommand rejects --first-only without -s
    /\ document = Parse(content)
    /\ cursor = 1
    /\ patches = << >>
    /\ processedTerms = {}
    /\ stderr = << >>
    /\ pc = "walk"
    /\ ret = Result(<< >>, TRUE, "")
    /\ ToolIdle

\* ast.Walk still has a node to enter, in the first run or in the second.
Entering == pc \in { "walk", "rewalk" } /\ cursor <= Len(document)

\* ast.Walk has returned and ProcessMarkdown is at its last statements.
Walked == pc \in { "walk", "rewalk" } /\ cursor > Len(document)

\* The pc of the return that ends the run.
ReturnPc == IF pc = "walk" THEN "done" ELSE "redone"

\* The condition without dryRun: a dry run with patches applies them.
SkipApplyIgnoresDryRun == patches = << >>

\* if dryRun || len(patches) == 0
SkipApply == dryRun \/ patches = << >>

\* case CodeBlock, FencedCodeBlock, HTMLBlock, RawHTML, CodeSpan: WalkSkipChildren
WalkOpaque ==
    /\ Entering
    /\ document[cursor].kind \in OpaqueKinds
    /\ cursor' = cursor + 1 + document[cursor].desc
    /\ UNCHANGED << inputs, patches, processedTerms, stderr, pc, ret >>
    /\ UNCHANGED tool

\* case Link: WalkContinue
WalkLink ==
    /\ Entering
    /\ document[cursor].kind = "Link"
    /\ cursor' = cursor + 1
    /\ UNCHANGED << inputs, patches, processedTerms, stderr, pc, ret >>
    /\ UNCHANGED tool

\* case Text, scan mode
WalkTextScan ==
    /\ Entering
    /\ document[cursor].kind = "Text"
    /\ scan
    /\ \E order \in TermOrders :
         LET segment == document[cursor]
             textStr == Slice(content, segment.start, segment.stop)
             acc == ScanTermLoop(order, textStr, segment.start,
                                 Acc(patches, processedTerms, stderr))
         IN  /\ patches' = acc.patches
             /\ processedTerms' = acc.processed
             /\ stderr' = acc.stderr
    /\ cursor' = cursor + 1
    /\ UNCHANGED << inputs, pc, ret >>
    /\ UNCHANGED tool

\* case Text, manual mode
WalkTextManual ==
    /\ Entering
    /\ document[cursor].kind = "Text"
    /\ ~scan
    /\ LET segment == document[cursor]
           textStr == Slice(content, segment.start, segment.stop)
           acc == ManualMatchLoop(rubiRegex(textStr), segment.start,
                                  Acc(patches, processedTerms, stderr))
       IN  /\ patches' = acc.patches
           /\ processedTerms' = acc.processed
           /\ stderr' = acc.stderr
    /\ cursor' = cursor + 1
    /\ UNCHANGED << inputs, pc, ret >>
    /\ UNCHANGED tool

\* default: WalkContinue
WalkOther ==
    /\ Entering
    /\ document[cursor].kind \notin OpaqueKinds \cup { "Link", "Text" }
    /\ cursor' = cursor + 1
    /\ UNCHANGED << inputs, patches, processedTerms, stderr, pc, ret >>
    /\ UNCHANGED tool

\* if dryRun || len(patches) == 0 { return content, nil }
ReturnContent ==
    /\ Walked
    /\ SkipApply
    /\ ret' = Result(content, FALSE, "")
    /\ pc' = ReturnPc
    /\ UNCHANGED << inputs, cursor, patches, processedTerms, stderr >>
    /\ UNCHANGED tool

\* return ApplyPatches(content, patches)
ReturnApplyPatches ==
    /\ Walked
    /\ ~SkipApply
    /\ ret' \in ApplyPatches(content, patches)
    /\ pc' = ReturnPc
    /\ UNCHANGED << inputs, cursor, patches, processedTerms, stderr >>
    /\ UNCHANGED tool

\* The scan command run again on the file the first scan run wrote:
\* handleMainCommand writes the returned bytes to the file, and the next
\* invocation reads them and calls ProcessMarkdown with the same flags.
RunAgainOnOutput ==
    /\ pc = "done"
    /\ scan /\ ~dryRun
    /\ ret.err = "" /\ ~ret.isNil
    /\ content' = ret.buf
    /\ document' = Parse(ret.buf)
    /\ cursor' = 1
    /\ patches' = << >>
    /\ processedTerms' = {}
    /\ stderr' = << >>
    /\ pc' = "rewalk"
    /\ ret' = Result(<< >>, TRUE, "")
    /\ UNCHANGED << dryRun, scan, firstOnly >>
    /\ UNCHANGED tool

Next ==
    \/ WalkOpaque
    \/ WalkLink
    \/ WalkTextScan
    \/ WalkTextManual
    \/ WalkOther
    \/ ReturnContent
    \/ ReturnApplyPatches

\* One call of ProcessMarkdown.
Spec == Init /\ [][Next]_vars

\* The scan command run on a file and then again on what it wrote.
NextAgain ==
    \/ Next
    \/ RunAgainOnOutput

SpecAgain == Init /\ [][NextAgain]_vars

(* ------------------- ApplyPatches called on its own -------------------- *)

\* ApplyPatches is a function of the package that its tests call with patch
\* lists ProcessMarkdown never builds.  SpecApply draws the two arguments
\* from bounded sets and makes the call; content holds original, patches the
\* list as the caller passes it and ret the two results.

\* The longest patch list.
MaxPatches == 2

\* The longest original.
MaxOrigLen == 2

Alphabet == << "a", "b", "c", "d" >>

Originals == { SubSeq(Alphabet, 1, n) : n \in 0 .. Min({ MaxOrigLen, Len(Alphabet) }) }

\* Start runs from below 0 to beyond the longest original; End likewise,
\* but for the values below 0, which Start > End or Start < 0 covers.
Starts == -1 .. MaxOrigLen + 1
Ends == 0 .. MaxOrigLen + 1
NewTexts == { << >>, << "X" >>, << "Y", "Z" >> }

PatchValues == { Patch(st, en, nt) : st \in Starts, en \in Ends, nt \in NewTexts }

PatchLists == UNION { [ 1 .. n -> PatchValues ] : n \in 0 .. MaxPatches }

InitApply ==
    /\ content \in Originals
    /\ patches \in PatchLists
    /\ dryRun = FALSE
    /\ scan = FALSE
    /\ firstOnly = FALSE
    /\ document = << >>
    /\ cursor = 0
    /\ processedTerms = {}
    /\ stderr = << >>
    /\ pc = "call"
    /\ ret = Result(<< >>, TRUE, "")
    /\ ToolIdle

\* result, err := ApplyPatches(original, patches)
CallApplyPatches ==
    /\ pc = "call"
    /\ ret' \in ApplyPatches(content, patches)
    /\ pc' = "called"
    /\ UNCHANGED << inputs, cursor, patches, processedTerms, stderr >>
    /\ UNCHANGED tool

NextApply == CallApplyPatches

SpecApply == InitApply /\ [][NextApply]_vars

(* ---------------------- vocabulary of the properties ------------------ *)

Returned == pc = "done"

\* ProcessMarkdown returned a rewritten buffer (not a dry run, no error).
Applied == Returned /\ ~dryRun /\ ret.err = "" /\ ~ret.isNil

PatchSet == { patches[k] : k \in DOMAIN patches }

\* The half-open byte ranges a0..a1 and b0..b1 share a byte.
Intersects(a0, a1, b0, b1) == a0 < b1 /\ b0 < a1

\* Node j is node i or one of its descendants.
InSubtree(j, i) == i <= j /\ j <= i + document[i].desc

\* The node kinds the exclusion rule names.
ExcludedKinds == { "CodeBlock", "FencedCodeBlock", "HTMLBlock", "RawHTML", "CodeSpan" }

ExcludedNodes ==
    { j \in DOMAIN document :
        \E i \in DOMAIN document : document[i].kind \in ExcludedKinds /\ InSubtree(j, i) }

\* Text nodes outside every excluded subtree.
ScannableTexts == { i \in DOMAIN document : document[i].kind = "Text" } \ ExcludedNodes

TextOf(i) == Slice(content, document[i].start, document[i].stop)

\* How far the patches that end at or before source offset o move the bytes
\* that follow them.
RECURSIVE Shift(_, _)
Shift(ps, o) ==
    IF ps = << >> THEN 0
    ELSE (IF Head(ps).End <= o
          THEN Len(Head(ps).NewText) - (Head(ps).End - Head(ps).Start)
          ELSE 0) + Shift(Tail(ps), o)

\* The bytes a..b of the source stand, unchanged, at their place in the output.
KeptInOutput(a, b) ==
    Slice(ret.buf, a + Shift(patches, a), b + Shift(patches, a)) = Slice(content, a, b)

\* The ruby markup the dictionary prescribes for each term, written out.
ExpectedRuby(term) ==
    CASE term = TermGo ->
           << "<","r","u","b","y",">","G","o","<","r","t",">",
              "g","&","a","m","p",";",
              "<","/","r","t",">","<","/","r","u","b","y",">" >>
      [] term = TermDotN ->
           << "<","r","u","b","y",">",".","N","<","r","t",">",
              "d","n",
              "<","/","r","t",">","<","/","r","u","b","y",">" >>
      [] term = TermN ->
           << "<","r","u","b","y",">","N","<","r","t",">",
              "n",
              "<","/","r","t",">","<","/","r","u","b","y",">" >>

(* ------------------------------ exclusion ----------------------------- *)

\* C1: in both modes no patch intersects the source range of a CodeBlock,
\* FencedCodeBlock, HTMLBlock, RawHTML or CodeSpan node or of a descendant of
\* one, and when a rewritten buffer is returned the bytes of each such range
\* stand in it unchanged.
C1_ExclusionInvariant ==
    \A j \in ExcludedNodes :
        /\ \A p \in PatchSet :
             ~Intersects(p.Start, p.End, document[j].start, document[j].stop)
        /\ Applied => KeptInOutput(document[j].start, document[j].stop)

\* A rewritten buffer was returned for a document that holds a code span with
\* text in it, with patches made before and after the span.
C1_Witness ==
    /\ Applied
    /\ \E i \in DOMAIN document :
         /\ document[i].kind = "CodeSpan"
         /\ document[i].desc > 0
         /\ \E p, q \in PatchSet :
              p.End <= document[i].start /\ document[i].stop <= q.Start

\* The inline HTML elements of the document: an opening tag and the next
\* closing tag among the siblings that follow it, as the pair of their
\* indices.
IsOpeningTag(i) ==
    document[i].kind = "RawHTML" /\ At(content, document[i].start + 1) # "/"

IsClosingTag(i) ==
    document[i].kind = "RawHTML" /\ At(content, document[i].start + 1) = "/"

InlineHTMLElements ==
    { e \in (DOMAIN document) \X (DOMAIN document) :
        /\ e[1] < e[2]
        /\ IsOpeningTag(e[1])
        /\ IsClosingTag(e[2])
        /\ \A k \in (e[1] + 1)..(e[2] - 1) :
             document[k].kind \notin { "Paragraph", "RawHTML" } }

\* C2: text inside an HTML element is never converted, in HTML blocks and
\* between an inline opening tag and its closing tag alike: no patch
\* intersects the bytes of an HTML block or the bytes between the two tags.
C2_NoPatchInsideHTMLElement ==
    \A p \in PatchSet :
        /\ \A i \in DOMAIN document :
             document[i].kind = "HTMLBlock" =>
               ~Intersects(p.Start, p.End, document[i].start, document[i].stop)
        /\ \A e \in InlineHTMLElements :
             ~Intersects(p.Start, p.End, document[e[1]].stop, document[e[2]].start)

(* -------------------------------- links ------------------------------- *)

\* The bytes of the destination of the Link node i: between "](" and ")".
LinkDestStart(i) ==
    IndexFrom(content, document[i].start, document[i].stop, "]") + 2

LinkDestEnd(i) == document[i].stop - 1

Links == { i \in DOMAIN document : document[i].kind = "Link" }

\* C3: for a Link node, in both modes, a patch that touches the link lies
\* inside a Text child (the label); no patch covers a byte of the
\* destination, and the destination stands unchanged in a rewritten buffer.
C3_LinkDestinationUntouched ==
    \A i \in Links :
        /\ \A p \in PatchSet :
             /\ ~Intersects(p.Start, p.End, LinkDestStart(i), LinkDestEnd(i))
             /\ Intersects(p.Start, p.End, document[i].start, document[i].stop) =>
                  \E j \in (i + 1)..(i + document[i].desc) :
                     /\ document[j].kind = "Text"
                     /\ document[j].start <= p.Start
                     /\ p.End <= document[j].stop
        /\ Applied => KeptInOutput(LinkDestStart(i), LinkDestEnd(i))

\* A rewritten buffer was returned for a document with a link whose label was
\* patched and whose destination holds a term.
C3_Witness ==
    /\ Applied
    /\ \E i \in Links :
         /\ \E p \in PatchSet :
              document[i].start < p.Start /\ p.End < LinkDestStart(i)
         /\ \E o \in LinkDestStart(i)..(LinkDestEnd(i) - 1) :
              HasPrefixAt(content, o, TermGo)

(* ----------------------------- manual mode ---------------------------- *)

\* The matches of the marker regexp in the scannable text nodes, as pairs
\* << i, m >> of a node index and a match.
RubiMatches ==
    UNION { { << i, rubiRegex(TextOf(i))[k] >> : k \in DOMAIN rubiRegex(TextOf(i)) } :
            i \in ScannableTexts }

\* The word of a match, and the offsets of the match in the document.
MatchedWord(im)  == Slice(TextOf(im[1]), im[2].m2, im[2].m3)
MatchStart(im)   == document[im[1]].start + im[2].m0
MatchEnd(im)     == document[im[1]].start + im[2].m1
MatchWordEnd(im) == document[im[1]].start + im[2].m3

\* The patch p stands rewritten in the output: its new text is where its
\* range was.
ReplacedInOutput(p) ==
    Slice(ret.buf, p.Start + Shift(patches, p.Start),
          p.Start + Shift(patches, p.Start) + Len(p.NewText)) = p.NewText

\* C4: manual mode, known word: for every match of word:rubi in a scannable
\* text node whose word is a dictionary key, exactly one patch has the range
\* of the match, the range runs from the first byte of the word to the last
\* byte of the marker, and the replacement is the ruby markup of the word
\* with the key's escaped pronunciation.
C4_ManualKnownWord ==
    (Returned /\ ~scan) =>
    \A im \in RubiMatches :
        MatchedWord(im) \in DOMAIN termMap =>
          /\ Cardinality({ k \in DOMAIN patches :
                             /\ patches[k].Start = MatchStart(im)
                             /\ patches[k].End = MatchEnd(im) }) = 1
          /\ MatchEnd(im) - MatchStart(im) = Len(MatchedWord(im)) + Len(Marker)
          /\ Slice(content, MatchStart(im), MatchEnd(im)) = MatchedWord(im) \o Marker
          /\ \A p \in PatchSet :
               Intersects(p.Start, p.End, MatchStart(im), MatchEnd(im)) =>
                 /\ p.Start = MatchStart(im)
                 /\ p.End = MatchEnd(im)
                 /\ p.NewText = ExpectedRuby(MatchedWord(im))

\* Manual mode returned after matching a marked dictionary word.
C4_Witness ==
    /\ Returned
    /\ ~scan
    /\ \E im \in RubiMatches : MatchedWord(im) = TermGo

\* C5: manual mode, unknown word: processing does not fail; exactly one
\* patch touches the match, it covers the five bytes of the marker and has an
\* empty replacement; the word stands unchanged in a rewritten buffer; and a
\* warning that names the word is on the diagnostic stream.
C5_ManualUnknownWord ==
    (Returned /\ ~scan) =>
    /\ ret.err = ""
    /\ ~ret.isNil
    /\ \A im \in RubiMatches :
         MatchedWord(im) \notin DOMAIN termMap =>
           /\ Cardinality({ k \in DOMAIN patches :
                              Intersects(patches[k].Start, patches[k].End,
                                         MatchStart(im), MatchEnd(im)) }) = 1
           /\ \A p \in PatchSet :
                Intersects(p.Start, p.End, MatchStart(im), MatchEnd(im)) =>
                  /\ p.Start = MatchWordEnd(im)
                  /\ p.End = MatchWordEnd(im) + 5
                  /\ Slice(content, p.Start, p.End) = << ":","r","u","b","i" >>
                  /\ p.NewText = << >>
           /\ Applied => KeptInOutput(MatchStart(im), MatchWordEnd(im))
           /\ \E k \in DOMAIN stderr :
                /\ stderr[k].msg = "WARNING (Manual Mode)"
                /\ stderr[k].word = MatchedWord(im)

\* A rewritten buffer was returned after a marked word that is not in the
\* dictionary was met.
C5_Witness ==
    /\ Applied
    /\ ~scan
    /\ \E im \in RubiMatches : MatchedWord(im) \notin DOMAIN termMap

\* The offsets e, in the text of node i, at which the marker stands directly
\* behind a word character.
MarkersBehindWord(i) ==
    { e \in 1..Len(TextOf(i)) :
        HasPrefixAt(TextOf(i), e, Marker) /\ IsWordChar(At(TextOf(i), e - 1)) }

\* The marker at e is removed by a patch: a patch ends where the marker ends
\* and starts at or before the marker.
MarkerPatched(i, e) ==
    \E p \in PatchSet :
        /\ p.End = document[i].start + e + Len(Marker)
        /\ p.Start <= document[i].start + e
        /\ Applied => ReplacedInOutput(p)

\* C6, as claimed: in manual mode every run of word characters in a scannable
\* text node that is directly followed by :rubi gets a patch that removes the
\* marker, whatever follows the marker.
C6_MarkerAlwaysRemoved ==
    (Returned /\ ~scan) =>
    \A i \in ScannableTexts : \A e \in MarkersBehindWord(i) : MarkerPatched(i, e)

\* The marker at e is followed by a non-word character or by the end of the
\* text node.
MarkerEndsWord(i, e) ==
    \/ e + Len(Marker) = Len(TextOf(i))
    \/ ~IsWordChar(At(TextOf(i), e + Len(Marker)))

\* The word characters in front of the marker at e are the "rubi" of a marker
\* that itself stands behind a word character.
WordIsEarlierMarker(i, e) ==
    /\ e >= Len(Marker) + 1
    /\ HasPrefixAt(TextOf(i), e - Len(Marker), Marker)
    /\ IsWordChar(At(TextOf(i), e - Len(Marker) - 1))

\* C6, amended: the marker gets such a patch when it is followed by a
\* non-word character or the end of the text node and the word in front of
\* it is not the "rubi" of an earlier marker; the rewritten buffer holds the
\* patch's replacement where word and marker were.
C6_MarkerRemovedAtWordEnd ==
    (Returned /\ ~scan) =>
    \A i \in ScannableTexts : \A e \in MarkersBehindWord(i) :
        (MarkerEndsWord(i, e) /\ ~WordIsEarlierMarker(i, e)) => MarkerPatched(i, e)

\* A rewritten buffer was returned for a text with two markers behind word
\* characters: one at the end of a word proper, which is patched, and one
\* whose word is the "rubi" of the first.
C6_Witness ==
    /\ Applied
    /\ ~scan
    /\ \E i \in ScannableTexts : \E e, f \in MarkersBehindWord(i) :
         /\ MarkerEndsWord(i, e)
         /\ ~WordIsEarlierMarker(i, e)
         /\ MarkerPatched(i, e)
         /\ WordIsEarlierMarker(i, f)

(* ------------------------------ scan mode ----------------------------- *)

\* The whole-word occurrences of term t in the text of node i: offsets s at
\* which t stands with a non-word character or the edge of the text node on
\* each side.
WholeWordOccurrences(i, t) ==
    { s \in 0..Len(TextOf(i)) :
        /\ HasPrefixAt(TextOf(i), s, t)
        /\ (s = 0 \/ ~IsWordChar(At(TextOf(i), s - 1)))
        /\ (s + Len(t) = Len(TextOf(i)) \/ ~IsWordChar(At(TextOf(i), s + Len(t)))) }

\* C7: scan mode without first-only: every whole-word occurrence of every
\* term in every scannable text node yields a patch of exactly its range,
\* also for terms that start or end with a non-word character.
C7_EveryWholeWordOccurrencePatched ==
    (Returned /\ scan /\ ~firstOnly) =>
    \A i \in ScannableTexts : \A t \in DOMAIN termMap :
        \A s \in WholeWordOccurrences(i, t) :
            \E p \in PatchSet :
                /\ p.Start = document[i].start + s
                /\ p.End = document[i].start + s + Len(t)

\* C8: scan mode never matches a term as part of a longer word: no patch in a
\* scannable text node has a word character of that node directly in front
\* of it or directly behind it.
C8_NoPatchInsideLongerWord ==
    scan =>
    \A p \in PatchSet : \A i \in ScannableTexts :
        (document[i].start <= p.Start /\ p.End <= document[i].stop) =>
          /\ ~(document[i].start < p.Start /\ IsWordChar(At(content, p.Start - 1)))
          /\ ~(p.End < document[i].stop /\ IsWordChar(At(content, p.End)))

\* C9: scan mode: the bytes every patch covers are a dictionary key, inside
\* one scannable text node, and its replacement is the ruby markup of that
\* key with the key's escaped pronunciation.
C9_ScanPatchesAreTerms ==
    scan =>
    \A p \in PatchSet :
        /\ 0 <= p.Start /\ p.Start < p.End /\ p.End <= Len(content)
        /\ Slice(content, p.Start, p.End) \in DOMAIN termMap
        /\ p.NewText = ExpectedRuby(Slice(content, p.Start, p.End))
        /\ \E i \in ScannableTexts :
             document[i].start <= p.Start /\ p.End <= document[i].stop

\* Scan mode returned with patches for two different terms, one of them the
\* term whose pronunciation needs escaping.
C9_Witness ==
    /\ Returned
    /\ scan
    /\ \E p, q \in PatchSet :
         /\ Slice(content, p.Start, p.End) = TermGo
         /\ Slice(content, q.Start, q.End) = TermDotN

\* The offsets in the document of the matches of term t in the scannable
\* text nodes.
MatchOffsets(t) ==
    UNION { { document[i].start + scanTermRegex(TextOf(i), t)[k].m0 :
                k \in DOMAIN scanTermRegex(TextOf(i), t) } :
            i \in ScannableTexts }

\* The indices of the patches made for term t.
PatchesFor(t) ==
    { k \in DOMAIN patches : Slice(content, patches[k].Start, patches[k].End) = t }

RunAgainReturned == pc = "redone"

\* C11: a scan run on the output of a successful scan run generates no
\* patch and returns that output unchanged.
C11_ScanIdempotent ==
    RunAgainReturned =>
        /\ patches = << >>
        /\ ret = Result(content, FALSE, "")

(* --------------------------- C12 .. C17 ------------------------------- *)

\* ApplyPatches, called on its own, has returned.
Called == pc = "called"

Failed == ret.err # "" /\ ret.isNil /\ ret.buf = << >>

Succeeded == ret.err = ""

\* The two ranges overlap: a.Start < b.End and b.Start < a.End.
Overlap(a, b) == a.Start < b.End /\ b.Start < a.End

\* 0 <= Start <= End <= len(original)
InBounds(p) == 0 <= p.Start /\ p.Start <= p.End /\ p.End <= Len(content)

\* Pairs of different positions of the list.
PatchPairs == { ij \in (DOMAIN patches) \X (DOMAIN patches) : ij[1] # ij[2] }

SomeOverlap == \E ij \in PatchPairs : Overlap(patches[ij[1]], patches[ij[2]])

C13_OutOfBoundsRejected ==
    Called /\ (\E i \in DOMAIN patches : ~InBounds(patches[i])) => Failed

\* A patch ending beyond the original, after a valid one, was rejected.
C13_Witness ==
    /\ Called /\ Len(patches) = 2
    /\ InBounds(patches[1])
    /\ patches[2].Start >= patches[1].End
    /\ patches[2].End > Len(content) /\ patches[2].Start <= Len(content)
    /\ ret = Result(<< >>, TRUE, ErrBounds)

\* The lists that hold the same patches as ps, in every order.
PermutationsOf(ps) ==
    { [ k \in DOMAIN ps |-> ps[f[k]] ] :
      f \in { g \in [ DOMAIN ps -> DOMAIN ps ] :
                \A i, j \in DOMAIN ps : i # j => g[i] # g[j] } }

\* The orders of the list that are ascending in Start.
AscendingOrders ==
    { srt \in PermutationsOf(patches) :
        \A k \in 1 .. Len(srt) - 1 : srt[k].Start <= srt[k + 1].Start }

\* What the first k patches of srt change the length by.
RECURSIVE Growth(_, _)
Growth(srt, k) ==
    IF k = 0 THEN 0
    ELSE Growth(srt, k - 1) + Len(srt[k].NewText) - (srt[k].End - srt[k].Start)

\* Where the new text of srt[k] begins in the output.
NewTextAt(srt, k) == srt[k].Start + Growth(srt, k - 1)

\* The output is the original with each patch's range replaced by its new
\* text, srt being the patches in ascending order: every new text stands
\* where its range stood, and the bytes before the first patch, between
\* two patches and after the last are the original's.
Reconstructs(out, srt) ==
    LET n == Len(srt)
        GapStart(k) == IF k = 1 THEN 0 ELSE srt[k - 1].End
        GapEnd(k) == IF k = n + 1 THEN Len(content) ELSE srt[k].Start
    IN  /\ Len(out) = Len(content) + Growth(srt, n)
        /\ \A k \in 1 .. n :
             Slice(out, NewTextAt(srt, k), NewTextAt(srt, k) + Len(srt[k].NewText))
                 = srt[k].NewText
        /\ \A k \in 1 .. n + 1 :
             Slice(out, GapStart(k) + Growth(srt, k - 1), GapEnd(k) + Growth(srt, k - 1))
                 = Slice(content, GapStart(k), GapEnd(k))

\* C14: on success the output is, for the patches in ascending Start
\* order, the original bytes before each patch followed by its new text,
\* then the original bytes after the last patch; with no patch it is the
\* original.
C14_Reconstruction ==
    Called /\ Succeeded =>
        /\ \E srt \in AscendingOrders : Reconstructs(ret.buf, srt)
        /\ patches = << >> => ret.buf = content

\* Two patches passed out of order were applied: the earlier one replaces
\* bytes, the later one is adjacent to it and original bytes follow it.
C14_Witness ==
    /\ Called /\ Succeeded /\ Len(patches) = 2
    /\ patches[2].Start < patches[2].End
    /\ patches[2].End = patches[1].Start
    /\ patches[1].End < Len(content)
    /\ patches[1].NewText # << >> /\ patches[2].NewText # << >>
    /\ patches[1].NewText # patches[2].NewText

RECURSIVE SumOver(_, _)
SumOver(F(_), k) == IF k = 0 THEN 0 ELSE SumOver(F, k - 1) + F(k)

\* C15: on success len(output) = len(original) - the sum of End - Start
\* + the sum of len(NewText), over all patches.
C15_LengthLaw ==
    LET Removed(k) == patches[k].End - patches[k].Start
        Added(k) == Len(patches[k].NewText)
    IN  Called /\ Succeeded =>
            Len(ret.buf) = Len(content) - SumOver(Removed, Len(patches))
                                        + SumOver(Added, Len(patches))

\* A deletion and an insertion of different lengths were applied.
C15_Witness ==
    /\ Called /\ Succeeded /\ Len(patches) = 2
    /\ patches[1].End > patches[1].Start /\ patches[1].NewText = << >>
    /\ patches[2].End = patches[2].Start /\ Len(patches[2].NewText) = 2
    /\ Len(ret.buf) # Len(content)

\* C16: the list is an unordered collection: a call on any permutation of
\* the list fails if this call failed, and succeeds with the same output
\* if this call succeeded.
C16_OrderIndependent ==
    Called =>
        \A perm \in PermutationsOf(patches) :
            \A r \in ApplyPatches(content, perm) :
                /\ (r.err = "") = (ret.err = "")
                /\ r.buf = ret.buf

\* Every patch is in bounds and no two overlap.
Disjoint ==
    /\ \A i \in DOMAIN patches : InBounds(patches[i])
    /\ ~SomeOverlap

\* C17: every in-bounds list without an overlapping pair is applied
\* successfully, adjacent and zero-length patches included.
C17_DisjointAccepted == Called /\ Disjoint => Succeeded

(* --------------------------- C18 .. C20 ------------------------------- *)

\* The patch a manual-mode match calls for.
ExpectedManualPatch(im) ==
    IF MatchedWord(im) \in DOMAIN termMap
    THEN Patch(MatchStart(im), MatchEnd(im), ExpectedRuby(MatchedWord(im)))
    ELSE Patch(MatchWordEnd(im), MatchEnd(im), << >>)

\* The offsets of the matches of term t that scan mode patches.
PatchedOffsets(t) ==
    IF firstOnly /\ MatchOffsets(t) # {} THEN { Min(MatchOffsets(t)) }
    ELSE MatchOffsets(t)

\* The patches the document, the dictionary, the mode and first-only call
\* for.  Neither dryRun nor the order the dictionary is iterated in is part
\* of it.
ExpectedPatches ==
    IF scan
    THEN UNION { { Patch(o, o + Len(t), ExpectedRuby(t)) : o \in PatchedOffsets(t) } :
                 t \in DOMAIN termMap }
    ELSE { ExpectedManualPatch(im) : im \in RubiMatches }

\* C18: a dry run generates the same patches as a run without dryRun (both
\* generate the patches the other inputs call for), does not apply them,
\* returns no validation error even when patches overlap, and returns its
\* input unchanged.
C18_DryRun ==
    Returned =>
        LET expected == ExpectedPatches
        IN  /\ PatchSet = expected
            /\ Len(patches) = Cardinality(expected)
            /\ dryRun => ret = Result(content, FALSE, "")

\* A dry run generated overlapping patches and returned.
C18_Witness == Returned /\ dryRun /\ SomeOverlap

\* Two patches made for different dictionary entries overlap.
EntriesOverlap ==
    \E ij \in PatchPairs :
        /\ Overlap(patches[ij[1]], patches[ij[2]])
        /\ Slice(content, patches[ij[1]].Start, patches[ij[1]].End)
             # Slice(content, patches[ij[2]].Start, patches[ij[2]].End)

\* C19: a scan run that applies its patches and has made overlapping
\* patches for two different dictionary entries returns ApplyPatches's
\* overlap error and no buffer.
C19_ScanOverlapFails ==
    Returned /\ scan /\ ~dryRun /\ EntriesOverlap =>
        ret = Result(<< >>, TRUE, ErrOverlap)

\* Such a run returned, the shorter entry's patch generated first.
C19_Witness ==
    /\ Returned /\ scan /\ ~dryRun /\ EntriesOverlap
    /\ patches[1].Start > patches[2].Start
    /\ Failed

\* The original from offset o on with every patch of the set applied.
RECURSIVE Spliced(_, _)
Spliced(expected, o) ==
    IF o >= Len(content) THEN << >>
    ELSE IF \E p \in expected : p.Start = o
    THEN LET p == CHOOSE q \in expected : q.Start = o
         IN  p.NewText \o Spliced(expected, p.End)
    ELSE << At(content, o) >> \o Spliced(expected, o + 1)

\* The results the inputs call for, whatever the iteration order.
ExpectedResult ==
    LET expected == ExpectedPatches
    IN  IF dryRun \/ expected = {} THEN Result(content, FALSE, "")
        ELSE IF \E p, q \in expected : p # q /\ Overlap(p, q)
        THEN Result(<< >>, TRUE, ErrOverlap)
        ELSE Result(Spliced(expected, 0), FALSE, "")

\* C20: the result of a scan run does not depend on the order the
\* dictionary is iterated in: every run returns the result that the
\* document, the dictionary and the flags determine.
C20_IterationOrderIrrelevant == Returned /\ scan => ret = ExpectedResult

\* A scan run generated the patches of two entries of one text node later
\* patch first, applied them and returned the rewritten document.
C20_Witness ==
    /\ Returned /\ scan /\ ~dryRun /\ Succeeded
    /\ \E k \in 1 .. Len(patches) - 1 : patches[k].Start > patches[k + 1].Start

(* ------------------------------- C21 ---------------------------------- *)

\* The patch lies inside the byte range of a scannable text node.
InsideTextNode(p) ==
    \E i \in ScannableTexts :
        document[i].start <= p.Start /\ p.Start <= p.End /\ p.End <= document[i].stop

\* C21: in manual mode the generated patches are pairwise non-overlapping,
\* each lies inside the byte range of a text node, and ProcessMarkdown
\* returns neither the overlap error nor the bounds error.
C21_ManualNeverFailsValidation ==
    ~scan =>
        /\ ~SomeOverlap
        /\ \A k \in DOMAIN patches : InsideTextNode(patches[k])
        /\ Returned => ret.err \notin { ErrOverlap, ErrBounds }

\* A manual run generated a replacement and a marker removal and applied
\* both.
C21_Witness ==
    /\ Applied /\ ~scan
    /\ \E i, j \in DOMAIN patches :
         /\ patches[i].NewText = << >>
         /\ patches[j].NewText # << >>

(* ------------------------- the other functions ------------------------ *)

\* ProcessMarkdown's own variables while another function runs.
core == << content, dryRun, scan, firstOnly, document, cursor, patches,
           processedTerms, stderr >>

CoreIdle ==
    /\ content = << >>
    /\ dryRun = FALSE
    /\ scan = FALSE
    /\ firstOnly = FALSE
    /\ document = << >>
    /\ cursor = 0
    /\ patches = << >>
    /\ processedTerms = {}
    /\ stderr = << >>

\* A returned error alone: err is "" for nil.
NoError == ""

(* --------------------------- LoadDictionary --------------------------- *)

\* The most entries a dictionary file has.
MaxEntries == 2

\* type Term struct { Term, Yomi, Ref string }
Term(term, yomi, ref) == [ Term |-> term, Yomi |-> yomi, Ref |-> ref ]

\* The entries a file can hold: with and without a term, a pronunciation
\* and a reference.
TermValues ==
    { Term(t, y, r) : t \in { "", "Go", "N" }, y \in { "", "g" }, r \in { "", "r" } }

TermLists == UNION { [ 1 .. n -> TermValues ] : n \in 0 .. MaxEntries }

\* What os.ReadFile and yaml.Unmarshal make of the file at path: the read
\* fails, the bytes are not a dictionary, or dict.Terms holds the entries.
DictFiles ==
    { [ status |-> "unreadable", terms |-> << >> ],
      [ status |-> "malformed", terms |-> << >> ] }
    \cup { [ status |-> "parsed", terms |-> ts ] : ts \in TermLists }

\* make(map[string]Term)
EmptyMap == [ t \in {} |-> Term("", "", "") ]

\* termMap[term.Term] = term
MapPut(m, e) == [ t \in DOMAIN m \cup { e.Term } |-> IF t = e.Term THEN e ELSE m[t] ]

\* The entry test without the pronunciation.
EntryInvalidTermOnly(e) == e.Term = ""

\* if term.Term == "" || term.Yomi == ""
EntryInvalid(e) == e.Term = "" \/ e.Yomi = ""

InitLoad ==
    /\ CoreIdle
    /\ args \in DictFiles
    /\ locals = << >>
    /\ file = << >>
    /\ stdout = << >>
    /\ trace = << >>
    /\ pc = "ReadFile"
    /\ ret = Result(<< >>, TRUE, NoError)

\* data, err := os.ReadFile(path)
LoadReadFile ==
    /\ pc = "ReadFile"
    /\ IF args.status = "unreadable"
       THEN ret' = Result(<< >>, TRUE, "failed to read dictionary file") /\ pc' = "loaded"
       ELSE ret' = ret /\ pc' = "Unmarshal"
    /\ UNCHANGED << core, tool >>

\* yaml.Unmarshal(data, &dict); termMap := make(map[string]Term, ...)
LoadUnmarshal ==
    /\ pc = "Unmarshal"
    /\ IF args.status = "malformed"
       THEN /\ ret' = Result(<< >>, TRUE, "failed to parse dictionary yaml")
            /\ pc' = "loaded"
            /\ locals' = locals
       ELSE /\ locals' = [ terms |-> args.terms, termMap |-> EmptyMap, i |-> 1 ]
            /\ pc' = "range"
            /\ ret' = ret
    /\ UNCHANGED << core, args, file, stdout, trace >>

\* The loop has an entry left.
Ranging == pc = "range" /\ locals.i <= Len(locals.terms)

\* return nil, "invalid entry found"
LoadRejectInvalid ==
    /\ Ranging
    /\ EntryInvalid(locals.terms[locals.i])
    /\ ret' = Result(<< >>, TRUE, "invalid entry found: term and yomi are required")
    /\ pc' = "loaded"
    /\ UNCHANGED << core, tool >>

\* return nil, "duplicate term found"
LoadRejectDuplicate ==
    /\ Ranging
    /\ ~EntryInvalid(locals.terms[locals.i])
    /\ locals.terms[locals.i].Term \in DOMAIN locals.termMap
    /\ ret' = Result(<< >>, TRUE, "duplicate term found")
    /\ pc' = "loaded"
    /\ UNCHANGED << core, tool >>

\* termMap[term.Term] = term
LoadPut ==
    /\ Ranging
    /\ ~EntryInvalid(locals.terms[locals.i])
    /\ locals.terms[locals.i].Term \notin DOMAIN locals.termMap
    /\ locals' = [ locals EXCEPT !.termMap = MapPut(@, locals.terms[locals.i]),
                                 !.i = @ + 1 ]
    /\ UNCHANGED << core, pc, ret, args, file, stdout, trace >>

\* return termMap, nil
LoadReturn ==
    /\ pc = "range" /\ locals.i > Len(locals.terms)
    /\ ret' = Result(locals.termMap, FALSE, NoError)
    /\ pc' = "loaded"
    /\ UNCHANGED << core, tool >>

NextLoad ==
    \/ LoadReadFile
    \/ LoadUnmarshal
    \/ LoadRejectInvalid
    \/ LoadRejectDuplicate
    \/ LoadPut
    \/ LoadReturn

SpecLoad == InitLoad /\ [][NextLoad]_vars

(* ------------------------------- C22 ---------------------------------- *)

Loaded == pc = "loaded"

\* The file was read and parsed, every entry has a term and a yomi and no
\* term occurs twice.
DictionaryWellFormed ==
    /\ args.status = "parsed"
    /\ \A i \in DOMAIN args.terms : args.terms[i].Term # "" /\ args.terms[i].Yomi # ""
    /\ \A i, j \in DOMAIN args.terms : i # j => args.terms[i].Term # args.terms[j].Term

\* C22: LoadDictionary returns a map exactly when every entry has a term and
\* a yomi and no term occurs twice, and an error with a nil map otherwise;
\* the map has one key per entry and each key maps to its entry.
C22_LoadDictionary ==
    Loaded =>
        IF DictionaryWellFormed
        THEN /\ ret.err = NoError /\ ~ret.isNil
             /\ DOMAIN ret.buf = { args.terms[i].Term : i \in DOMAIN args.terms }
             /\ Cardinality(DOMAIN ret.buf) = Len(args.terms)
             /\ \A i \in DOMAIN args.terms : ret.buf[args.terms[i].Term] = args.terms[i]
        ELSE ret.err # NoError /\ ret.isNil /\ ret.buf = << >>

\* A file with the most entries, one of them with a reference, was loaded.
C22_Witness ==
    /\ Loaded /\ ret.err = NoError
    /\ Len(args.terms) = MaxEntries
    /\ \E i \in DOMAIN args.terms : args.terms[i].Ref # ""

(* -------------------------- handleMainCommand ------------------------- *)

\* A function that returns an error alone.
Error(err) == Result(<< >>, TRUE, err)

\* A file of the file system, and a path with no file.
File(bytes) == [ exists |-> TRUE, content |-> bytes ]
Absent == [ exists |-> FALSE, content |-> "" ]

\* What a failed os.WriteFile can leave behind: it opens the file with
\* O_CREATE and O_TRUNC before it writes, so the file is as it was when
\* the open failed and empty when the write failed.
AfterFailedWrite(f) == { f, File("") }

\* type Config struct, without DictPath; InputFile is "" when no argument
\* was given.
Configs ==
    [ Check : BOOLEAN, Scan : BOOLEAN, FirstOnly : BOOLEAN, Write : BOOLEAN,
      DryRun : BOOLEAN, InputFile : { "", "in.md" } ]

\* The flags, the input file as it is when the command starts, and the
\* outcomes of the calls handleMainCommand makes: LoadDictionary,
\* os.ReadFile, ProcessMarkdown (an error, the content as it was, or a
\* rewritten content) and os.WriteFile.  A dry run returns the content as
\* it was; a file that does not exist cannot be read.
MainEnvironments ==
    { e \in [ cfg : Configs,
              input : { File("original"), Absent },
              dict : { "ok", "error" },
              read : { "ok", "error" },
              processed : { "error", "original", "converted" },
              write : { "ok", "error" } ] :
        /\ e.cfg.DryRun => e.processed = "original"
        /\ ~e.input.exists => e.read = "error" }

\* The flag validation without the manual-mode test of --first-only.
FlagErrorFirstOnlyAllowed(cfg) ==
    IF cfg.Check
    THEN IF cfg.InputFile # "" THEN "the -c flag cannot be used with an input file"
         ELSE IF cfg.Scan \/ cfg.FirstOnly \/ cfg.Write \/ cfg.DryRun
              THEN "the -c flag cannot be used with other processing flags"
         ELSE NoError
    ELSE IF cfg.Scan
    THEN IF cfg.InputFile = "" THEN "an input file is required for scan mode (-s)" ELSE NoError
    ELSE IF cfg.InputFile = "" THEN "an input file is required for manual mode"
         ELSE NoError

\* The flag validation at the head of handleMainCommand: the error it
\* returns, NoError when the flags pass.
FlagError(cfg) ==
    IF cfg.Check
    THEN IF cfg.InputFile # "" THEN "the -c flag cannot be used with an input file"
         ELSE IF cfg.Scan \/ cfg.FirstOnly \/ cfg.Write \/ cfg.DryRun
              THEN "the -c flag cannot be used with other processing flags"
         ELSE NoError
    ELSE IF cfg.Scan
    THEN IF cfg.InputFile = "" THEN "an input file is required for scan mode (-s)" ELSE NoError
    ELSE IF cfg.FirstOnly THEN "the --first-only flag is only valid in -s (scan) mode"
         ELSE IF cfg.InputFile = "" THEN "an input file is required for manual mode"
         ELSE NoError

\* The validation errors before which mainFlagSet.Usage() prints to stderr.
UsageErrors ==
    { "the -c flag cannot be used with an input file",
      "an input file is required for scan mode (-s)",
      "an input file is required for manual mode" }

MainIdle ==
    /\ content = << >>
    /\ dryRun = FALSE
    /\ scan = FALSE
    /\ firstOnly = FALSE
    /\ document = << >>
    /\ cursor = 0
    /\ patches = << >>
    /\ processedTerms = {}

\* The variables of ProcessMarkdown that handleMainCommand leaves alone;
\* stderr is not one of them.
mainIdle == << content, dryRun, scan, firstOnly, document, cursor, patches,
               processedTerms >>

InitMain ==
    /\ MainIdle
    /\ stderr = << >>
    /\ args \in MainEnvironments
    /\ locals = << >>
    /\ file = args.input
    /\ stdout = << >>
    /\ trace = << >>
    /\ pc = "flags"
    /\ ret = Error(NoError)

\* The flag validation returns an error.
MainRejectFlags ==
    /\ pc = "flags"
    /\ FlagError(args.cfg) # NoError
    /\ stderr' = IF FlagError(args.cfg) \in UsageErrors
                 THEN Append(stderr, "Usage") ELSE stderr
    /\ ret' = Error(FlagError(args.cfg))
    /\ pc' = "returned"
    /\ UNCHANGED << mainIdle, tool >>

\* The flags pass.
MainAcceptFlags ==
    /\ pc = "flags"
    /\ FlagError(args.cfg) = NoError
    /\ pc' = IF args.cfg.Check THEN "validateDictionary" ELSE "LoadDictionary"
    /\ UNCHANGED << mainIdle, stderr, ret, tool >>

\* if cfg.Check { return validateDictionary(cfg.DictPath) }
MainValidateDictionary ==
    /\ pc = "validateDictionary"
    /\ trace' = Append(trace, "LoadDictionary")
    /\ IF args.dict = "error"
       THEN ret' = Error("dictionary validation failed") /\ stdout' = stdout
       ELSE ret' = Error(NoError) /\ stdout' = Append(stdout, "Dictionary is valid.")
    /\ pc' = "returned"
    /\ UNCHANGED << mainIdle, stderr, args, locals, file >>

\* termMap, err := LoadDictionary(cfg.DictPath)
MainLoadDictionary ==
    /\ pc = "LoadDictionary"
    /\ trace' = Append(trace, "LoadDictionary")
    /\ IF args.dict = "error"
       THEN ret' = Error("LoadDictionary failed") /\ pc' = "returned"
       ELSE ret' = ret /\ pc' = "ReadFile"
    /\ UNCHANGED << mainIdle, stderr, args, locals, file, stdout >>

\* content, err := os.ReadFile(cfg.InputFile)
MainReadFile ==
    /\ pc = "ReadFile"
    /\ trace' = Append(trace, "ReadFile")
    /\ IF args.read = "error"
       THEN ret' = Error("failed to read file") /\ pc' = "returned" /\ locals' = locals
       ELSE /\ locals' = [ content |-> file.content, processedContent |-> "" ]
            /\ pc' = "ProcessMarkdown"
            /\ ret' = ret
    /\ UNCHANGED << mainIdle, stderr, args, file, stdout >>

\* ProcessMarkdown's error is not looked at.
ProcessFailedIgnored == FALSE

\* if err != nil, after ProcessMarkdown
ProcessFailed == args.processed = "error"

\* processedContent, err := ProcessMarkdown(content, ...)
MainProcessMarkdown ==
    /\ pc = "ProcessMarkdown"
    /\ trace' = Append(trace, "ProcessMarkdown")
    /\ IF ProcessFailed
       THEN ret' = Error("failed to process markdown") /\ pc' = "returned" /\ locals' = locals
       ELSE /\ locals' = [ locals EXCEPT !.processedContent =
                             IF args.processed = "original" THEN locals.content
                             ELSE "converted" ]
            /\ pc' = "output"
            /\ ret' = ret
    /\ UNCHANGED << mainIdle, stderr, args, file, stdout >>

\* if cfg.Write { os.WriteFile(cfg.InputFile, processedContent, 0644); ... }
MainWriteFile ==
    /\ pc = "output"
    /\ args.cfg.Write
    /\ trace' = Append(trace, "WriteFile")
    /\ IF args.write = "error"
       THEN /\ file' \in AfterFailedWrite(file)
            /\ ret' = Error("failed to write to file")
            /\ stdout' = stdout
       ELSE /\ file' = File(locals.processedContent)
            /\ ret' = Error(NoError)
            /\ stdout' = Append(stdout, "File has been updated.")
    /\ pc' = "returned"
    /\ UNCHANGED << mainIdle, stderr, args, locals >>

\* else { fmt.Print(string(processedContent)) }
MainPrint ==
    /\ pc = "output"
    /\ ~args.cfg.Write
    /\ stdout' = Append(stdout, locals.processedContent)
    /\ ret' = Error(NoError)
    /\ pc' = "returned"
    /\ UNCHANGED << mainIdle, stderr, args, locals, file, trace >>

NextMain ==
    \/ MainRejectFlags
    \/ MainAcceptFlags
    \/ MainValidateDictionary
    \/ MainLoadDictionary
    \/ MainReadFile
    \/ MainProcessMarkdown
    \/ MainWriteFile
    \/ MainPrint

SpecMain == InitMain /\ [][NextMain]_vars

(* ---------------------------- C23, C24 -------------------------------- *)

MainReturned == pc = "returned"

\* The flag combinations the command is to reject.
InvalidFlags ==
    LET cfg == args.cfg
    IN  \/ cfg.Check /\ (cfg.InputFile # "" \/ cfg.Scan \/ cfg.FirstOnly
                           \/ cfg.Write \/ cfg.DryRun)
        \/ ~cfg.Check /\ cfg.InputFile = ""
        \/ cfg.FirstOnly /\ ~cfg.Scan

\* C23: with -c beside an input file or beside -s, --first-only, -w or
\* --dry-run, without -c and without an input file, or with --first-only
\* without -s, handleMainCommand returns an error and has neither loaded
\* the dictionary nor read or written a file.
C23_InvalidFlagsRejected ==
    InvalidFlags =>
        /\ trace = << >>
        /\ file = args.input
        /\ stdout = << >>
        /\ pc \in { "flags", "returned" }
        /\ MainReturned => ret.err # NoError

\* --first-only without -s, with an input file, was rejected.
C23_Witness ==
    /\ MainReturned
    /\ args.cfg.FirstOnly /\ ~args.cfg.Scan /\ ~args.cfg.Check
    /\ args.cfg.InputFile # ""
    /\ ret.err = "the --first-only flag is only valid in -s (scan) mode"

Wrote == \E k \in DOMAIN trace : trace[k] = "WriteFile"

\* One of the steps before the output fails.
StepFails ==
    \/ InvalidFlags
    \/ args.dict = "error"
    \/ ~args.cfg.Check /\ (args.read = "error" \/ args.processed = "error")

\* C24: the input file is written, and the converted content or the
\* update message printed, only after flag validation, LoadDictionary,
\* os.ReadFile and ProcessMarkdown have succeeded in this order; when one
\* of them fails the command returns the error, the file is as it was and
\* nothing is on standard output; the file is written only with -w.
C24_OutputOnlyAfterSuccess ==
    /\ (Wrote \/ (stdout # << >> /\ ~args.cfg.Check)) =>
         /\ ~StepFails
         /\ Len(trace) >= 3
         /\ SubSeq(trace, 1, 3) = << "LoadDictionary", "ReadFile", "ProcessMarkdown" >>
    /\ Wrote => args.cfg.Write /\ trace[Len(trace)] = "WriteFile" /\ Len(trace) = 4
    /\ ~Wrote => file = args.input
    /\ (MainReturned /\ StepFails) =>
         /\ ret.err # NoError
         /\ ~Wrote
         /\ file = args.input
         /\ stdout = << >>

\* The converted content was written to the input file.
C24_Witness ==
    /\ MainReturned /\ Wrote
    /\ ret.err = NoError
    /\ file = File("converted")
    /\ args.input = File("original")

(* ------- handleInitCommand, handleUpdateCommand, downloadDictFile ----- *)

MaxRepoLen == 3

\* The characters of a repository argument: two letters and the separator.
RepoChars == { "o", "r", "/" }

\* The values of the --repo flag.
Repos == UNION { [ 1..n -> RepoChars ] : n \in 0..MaxRepoLen }

\* strings.Split(repo, "/"): the pieces between the separators, "" included.
RECURSIVE Split(_)
Split(s) ==
    LET seps == { i \in DOMAIN s : s[i] = "/" }
    IN  IF seps = {}
        THEN << s >>
        ELSE LET i == CHOOSE k \in seps : \A m \in seps : k <= m
             IN  << SubSeq(s, 1, i - 1) >> \o Split(SubSeq(s, i + 1, Len(s)))

\* The command, its flags, dict.yaml as it is when the command starts, and
\* the outcomes of the gh run (its exit and its standard output) and of
\* os.WriteFile.  dict update has no overwrite flag.
DictEnvironments ==
    { e \in [ command : { "init", "update" },
              repo : Repos,
              overwrite : BOOLEAN,
              input : { File("old"), Absent },
              gh : { "ok", "fail" },
              body : { "new", "" },
              write : { "ok", "error" } ] :
        e.command = "update" => ~e.overwrite }

InitDict ==
    /\ MainIdle
    /\ stderr = << >>
    /\ args \in DictEnvironments
    /\ locals = << >>
    /\ file = args.input
    /\ stdout = << >>
    /\ trace = << >>
    /\ pc = IF args.command = "init" THEN "handleInitCommand" ELSE "handleUpdateCommand"
    /\ ret = Error(NoError)

\* An existing file is replaced without a word.
ProtectedNever(f, overwrite) == FALSE

\* os.Stat succeeds and overwrite is not set.
Protected(f, overwrite) == f.exists /\ ~overwrite

\* handleInitCommand, dict.yaml exists and --overwrite is not given.
InitRejectExisting ==
    /\ pc = "handleInitCommand"
    /\ Protected(file, args.overwrite)
    /\ stdout' = Append(stdout, "Initializing dict.yaml")
    /\ ret' = Error("dict.yaml already exists. Use --overwrite to replace it.")
    /\ pc' = "returned"
    /\ UNCHANGED << mainIdle, stderr, args, locals, file, trace >>

\* handleInitCommand goes on to downloadDictFile.
InitDownload ==
    /\ pc = "handleInitCommand"
    /\ ~Protected(file, args.overwrite)
    /\ stdout' = Append(stdout, "Initializing dict.yaml")
    /\ pc' = "downloadDictFile"
    /\ UNCHANGED << mainIdle, stderr, args, locals, file, trace, ret >>

\* handleUpdateCommand
UpdateDownload ==
    /\ pc = "handleUpdateCommand"
    /\ stdout' = Append(stdout, "Updating dict.yaml")
    /\ pc' = "downloadDictFile"
    /\ UNCHANGED << mainIdle, stderr, args, locals, file, trace, ret >>

\* downloadDictFile: if len(ownerRepo) != 2
DownloadRejectRepo ==
    /\ pc = "downloadDictFile"
    /\ Len(Split(args.repo)) # 2
    /\ ret' = Error("invalid repository format")
    /\ pc' = "returned"
    /\ UNCHANGED << mainIdle, stderr, args, locals, file, stdout, trace >>

\* downloadDictFile: the gh command is built and run.
DownloadRunGh ==
    /\ pc = "downloadDictFile"
    /\ Len(Split(args.repo)) = 2
    /\ trace' = Append(trace, "gh")
    /\ IF args.gh = "fail"
       THEN ret' = Error("failed to download dict.yaml") /\ pc' = "returned" /\ locals' = locals
       ELSE /\ locals' = [ owner |-> Split(args.repo)[1],
                           repoName |-> Split(args.repo)[2],
                           stdout |-> args.body ]
            /\ pc' = "WriteFile"
            /\ ret' = ret
    /\ UNCHANGED << mainIdle, stderr, args, file, stdout >>

\* downloadDictFile: os.WriteFile(filePath, stdout.Bytes(), 0644)
DownloadWriteFile ==
    /\ pc = "WriteFile"
    /\ trace' = Append(trace, "WriteFile")
    /\ IF args.write = "error"
       THEN /\ file' \in AfterFailedWrite(file)
            /\ ret' = Error("failed to write dict.yaml")
            /\ stdout' = stdout
       ELSE /\ file' = File(locals.stdout)
            /\ ret' = Error(NoError)
            /\ stdout' = Append(stdout, "Successfully downloaded dict.yaml")
    /\ pc' = "returned"
    /\ UNCHANGED << mainIdle, stderr, args, locals >>

NextDict ==
    \/ InitRejectExisting
    \/ InitDownload
    \/ UpdateDownload
    \/ DownloadRejectRepo
    \/ DownloadRunGh
    \/ DownloadWriteFile

SpecDict == InitDict /\ [][NextDict]_vars

(* ---------------------------- C25, C26 -------------------------------- *)

DictReturned == pc = "returned"

Ran(step) == \E k \in DOMAIN trace : trace[k] = step

\* dict.yaml holds what gh printed.
Replaced == file = File(args.body)

\* The init command found dict.yaml and had no leave to overwrite it.
MustProtect == args.command = "init" /\ args.input.exists /\ ~args.overwrite

OwnerRepoForm ==
    LET repo == args.repo
    IN  \E i \in DOMAIN repo :
            /\ repo[i] = "/"
            /\ 1 < i /\ i < Len(repo)
            /\ \A j \in DOMAIN repo : repo[j] = "/" => j = i

\* C26: dict.yaml is written only after the repository argument was found
\* to have the form owner/repo and gh exited successfully; an argument of
\* another form gives an error without a run of gh, a failing gh gives an
\* error, and in both cases dict.yaml is as it was.
C26_WriteOnlyAfterChecks ==
    /\ Ran("WriteFile") => OwnerRepoForm /\ args.gh = "ok" /\ trace[1] = "gh"
    /\ ~OwnerRepoForm => ~Ran("gh") /\ file = args.input
    /\ (DictReturned /\ ~OwnerRepoForm) => ret.err # NoError
    /\ (DictReturned /\ args.gh = "fail") => ret.err # NoError /\ file = args.input

(* ------------------ updateReadme (generate-contributors) -------------- *)

MaxReadmeLen == 4

\* README.md is read as a sequence of pieces: each marker is one piece,
\* "x" is any other text.  Neither marker can begin inside the other.
startMarker == << "S" >>
endMarker == << "E" >>
ReadmePieces == { "S", "E", "x" }

Readmes == UNION { [ 1..n -> ReadmePieces ] : n \in 0..MaxReadmeLen }

\* The contributor lists generateContributorsMarkdown hands over.
ContributorLists == { << >>, << "c" >> }

\* bytes.Index(s, sep): the offset of the first occurrence of sep in s,
\* counted from 0, or -1.
Index(s, sep) ==
    LET at == { i \in 0..(Len(s) - Len(sep)) :
                  SubSeq(s, i + 1, i + Len(sep)) = sep }
    IN  IF at = {} THEN -1 ELSE CHOOSE i \in at : \A j \in at : i <= j

ReadmeEnvironments ==
    { e \in [ input : { File(r) : r \in Readmes } \cup { [ exists |-> FALSE, content |-> << >> ] },
              contributorsMarkdown : ContributorLists,
              write : { "ok", "error" } ] : TRUE }

InitReadme ==
    /\ MainIdle
    /\ stderr = << >>
    /\ args \in ReadmeEnvironments
    /\ locals = << >>
    /\ file = args.input
    /\ stdout = << >>
    /\ trace = << >>
    /\ pc = "updateReadme"
    /\ ret = Error(NoError)

\* content, err := os.ReadFile(readmePath), and the two bytes.Index calls
ReadmeReadFile ==
    /\ pc = "updateReadme"
    /\ trace' = Append(trace, "ReadFile")
    /\ IF ~file.exists
       THEN ret' = Error("failed to read README.md") /\ pc' = "returned" /\ locals' = locals
       ELSE /\ locals' = [ content |-> file.content,
                           startIndex |-> Index(file.content, startMarker),
                           endIndex |-> Index(file.content, endMarker) ]
            /\ pc' = "markers"
            /\ ret' = ret
    /\ UNCHANGED << mainIdle, stderr, args, file, stdout >>

\* if startIndex == -1 || endIndex == -1 || startIndex >= endIndex
MarkersInvalid(startIndex, endIndex) ==
    startIndex = -1 \/ endIndex = -1 \/ startIndex >= endIndex

ReadmeRejectMarkers ==
    /\ pc = "markers"
    /\ MarkersInvalid(locals.startIndex, locals.endIndex)
    /\ ret' = Error("markers not found or are in invalid order")
    /\ pc' = "returned"
    /\ UNCHANGED << mainIdle, stderr, args, locals, file, stdout, trace >>

\* The start marker is left out of what is kept.
ReadmeBufferDropsMarker(c, startIndex, endIndex, contributorsMarkdown) ==
    SubSeq(c, 1, startIndex)
        \o << "\n" >> \o contributorsMarkdown
        \o SubSeq(c, endIndex + 1, Len(c))

\* The three writes into the buffer: content[:startIndex+len(startMarker)],
\* "\n" and the list, content[endIndex:].
ReadmeBuffer(c, startIndex, endIndex, contributorsMarkdown) ==
    SubSeq(c, 1, startIndex + Len(startMarker))
        \o << "\n" >> \o contributorsMarkdown
        \o SubSeq(c, endIndex + 1, Len(c))

\* os.WriteFile(readmePath, buffer.Bytes(), 0644)
ReadmeWriteFile ==
    /\ pc = "markers"
    /\ ~MarkersInvalid(locals.startIndex, locals.endIndex)
    /\ trace' = Append(trace, "WriteFile")
    /\ IF args.write = "error"
       THEN /\ file' \in { file, File(<< >>) }
            /\ ret' = Error("failed to write updated README.md")
       ELSE /\ file' = File(ReadmeBuffer(locals.content, locals.startIndex,
                                         locals.endIndex, args.contributorsMarkdown))
            /\ ret' = Error(NoError)
    /\ pc' = "returned"
    /\ UNCHANGED << mainIdle, stderr, args, locals, stdout >>

NextReadme ==
    \/ ReadmeReadFile
    \/ ReadmeRejectMarkers
    \/ ReadmeWriteFile

SpecReadme == InitReadme /\ [][NextReadme]_vars

(* ------------------------------- C27 ---------------------------------- *)

ReadmeReturned == pc = "returned"

\* The places, counted from 1, of the first start and the first end marker
\* of the README as it was; 0 when there is none.
FirstPiece(piece) ==
    LET old == args.input.content
        at == { i \in DOMAIN old : old[i] = piece }
    IN  IF at = {} THEN 0 ELSE CHOOSE i \in at : \A j \in at : i <= j

MarkersInOrder ==
    /\ FirstPiece("S") > 0
    /\ FirstPiece("E") > 0
    /\ FirstPiece("S") < FirstPiece("E")

\* C27: with both markers present and the start marker before the end
\* marker, the README written by updateReadme is the old content up to and
\* including the start marker, a newline, the contributor list and the old
\* content from the end marker on; with a marker missing or the markers
\* in the wrong order updateReadme returns an error and the file is as it
\* was.
C27_OnlyBetweenMarkers ==
    LET old == args.input.content
    IN  /\ (args.input.exists /\ ~MarkersInOrder) =>
            /\ file = args.input
            /\ ~Ran("WriteFile")
            /\ ReadmeReturned => ret.err = "markers not found or are in invalid order"
        /\ (ReadmeReturned /\ args.input.exists /\ MarkersInOrder) =>
            /\ ret.err \in { NoError, "failed to write updated README.md" }
            /\ ret.err = NoError =>
                 file = File(SubSeq(old, 1, FirstPiece("S"))
                               \o << "\n" >> \o args.contributorsMarkdown
                               \o SubSeq(old, FirstPiece("E"), Len(old)))

\* A README with text before the start marker and an old list between the
\* markers was rewritten.
C27_Witness ==
    /\ ReadmeReturned /\ ret.err = NoError
    /\ FirstPiece("S") > 1
    /\ FirstPiece("E") > FirstPiece("S") + 1
    /\ args.contributorsMarkdown # << >>
    /\ file # args.input

(* ------------------------- sortDictFile ------------------------------- *)

MaxSortLen == 3

\* The bytes of the characters the terms are written with.
Byte == [ c \in { ".", "A", "B", "a", "b" } |->
            CASE c = "." -> 46 [] c = "A" -> 65 [] c = "B" -> 66
              [] c = "a" -> 97 [] c = "b" -> 98 ]

\* Terms as sequences of characters: both cases, a longer term, and terms
\* that start with a dot.
SortTerms ==
    { << "a" >>, << "A" >>, << "B" >>, << "a", "b" >>,
      << "." >>, << ".", "a" >>, << ".", "B" >> }

\* type Term struct of sort_dict.go; an empty Ref is left out of the YAML.
SortEntries == [ Term : SortTerms, Yomi : { << "x" >> }, Ref : { << >>, << "r" >> } ]

SortLists == UNION { [ 1..n -> SortEntries ] : n \in 0..MaxSortLen }

\* The input file as os.ReadFile and yaml.Unmarshal find it.
SortFiles ==
    { [ status |-> "unreadable", terms |-> << >> ],
      [ status |-> "malformed", terms |-> << >> ] }
        \cup { [ status |-> "parsed", terms |-> l ] : l \in SortLists }

\* strings.HasPrefix(term, ".")
HasPrefixDot(term) == Len(term) > 0 /\ term[1] = "."

\* strings.ToLower
ToLower(term) ==
    [ i \in DOMAIN term |->
        CASE term[i] = "A" -> "a" [] term[i] = "B" -> "b" [] OTHER -> term[i] ]

\* a < b on Go strings: byte by byte, a proper prefix first.
StringLess(a, b) ==
    \E k \in 1..Len(b) :
        /\ \A m \in 1..(k - 1) : m <= Len(a) /\ a[m] = b[m]
        /\ \/ k = Len(a) + 1
           \/ k <= Len(a) /\ Byte[a[k]] < Byte[b[k]]

\* The comparison without strings.ToLower.
LessCaseSensitive(termI, termJ) ==
    IF HasPrefixDot(termI) /\ ~HasPrefixDot(termJ) THEN FALSE
    ELSE IF ~HasPrefixDot(termI) /\ HasPrefixDot(termJ) THEN TRUE
    ELSE StringLess(termI, termJ)

\* The less function handed to sort.Slice.
Less(termI, termJ) ==
    IF HasPrefixDot(termI) /\ ~HasPrefixDot(termJ) THEN FALSE
    ELSE IF ~HasPrefixDot(termI) /\ HasPrefixDot(termJ) THEN TRUE
    ELSE StringLess(ToLower(termI), ToLower(termJ))

\* sort.Slice(dict.Terms, less): sort.Slice is not stable, so entries of
\* which neither is less than the other can come out in any order.  The
\* set of the orders the entries at the indices S can be sorted into.
RECURSIVE SliceOrders(_, _)
SliceOrders(terms, S) ==
    IF S = {} THEN { << >> }
    ELSE UNION { { << terms[i] >> \o r : r \in SliceOrders(terms, S \ {i}) } :
                 i \in { j \in S : \A m \in S : ~Less(terms[m].Term, terms[j].Term) } }

\* A line of the YAML text: what it begins with, and the value after it.
Line(head, value) == [ head |-> head, value |-> value ]
EmptyLine == Line("", << >>)

\* The lines yaml.Marshal writes for one entry, at the indentation of
\* yaml.v3.
MarshalEntry(e) ==
    << Line("    - term:", e.Term), Line("      yomi:", e.Yomi) >>
        \o (IF e.Ref = << >> THEN << >> ELSE << Line("      ref:", e.Ref) >>)

RECURSIVE MarshalEntries(_)
MarshalEntries(terms) ==
    IF terms = << >> THEN << >>
    ELSE MarshalEntry(Head(terms)) \o MarshalEntries(Tail(terms))

\* strings.Split(string(yaml.Marshal(&dict)), "\n"): the text ends with a
\* newline, so the last piece is empty.
MarshalLines(terms) ==
    IF terms = << >>
    THEN << Line("terms: []", << >>), EmptyLine >>
    ELSE << Line("terms:", << >>) >> \o MarshalEntries(terms) \o << EmptyLine >>

\* The loop over the lines: an empty line goes in before a line that
\* starts with "    - term:" unless the line is the first of the text.
RECURSIVE FormatFrom(_, _)
FormatFrom(lines, i) ==
    IF i >= Len(lines) THEN << >>
    ELSE (IF lines[i + 1].head = "    - term:" /\ i > 0
          THEN << EmptyLine >> ELSE << >>)
         \o << lines[i + 1] >> \o FormatFrom(lines, i + 1)

formattedLines(lines) == FormatFrom(lines, 0)

\* The output file is the input file unless a second argument names
\* another, which may not exist yet.
InitSort ==
    /\ MainIdle
    /\ stderr = << >>
    /\ args \in [ input : SortFiles, write : { "ok", "error" } ]
    /\ locals = << >>
    /\ file \in { [ exists |-> FALSE, content |-> << >> ],
                  File(<< Line("terms: []", << >>), EmptyLine >>) }
    /\ stdout = << >>
    /\ trace = << >>
    /\ pc = "sortDictFile"
    /\ ret = Error(NoError)

\* data, err := os.ReadFile(inputFile)
SortReadFile ==
    /\ pc = "sortDictFile"
    /\ stdout' = Append(stdout, "reading")
    /\ IF args.input.status = "unreadable"
       THEN ret' = Error("failed to read the file") /\ pc' = "returned"
       ELSE ret' = ret /\ pc' = "Unmarshal"
    /\ UNCHANGED << mainIdle, stderr, args, locals, file, trace >>

\* yaml.Unmarshal(data, &dict), and the count printed after it
SortUnmarshal ==
    /\ pc = "Unmarshal"
    /\ IF args.input.status = "malformed"
       THEN /\ ret' = Error("failed to parse the YAML") /\ pc' = "returned"
            /\ locals' = locals /\ stdout' = stdout
       ELSE /\ locals' = [ Terms |-> args.input.terms, originalCount |-> Len(args.input.terms) ]
            /\ stdout' = Append(stdout, "original count")
            /\ ret' = ret /\ pc' = "Slice"
    /\ UNCHANGED << mainIdle, stderr, args, file, trace >>

\* sort.Slice(dict.Terms, ...)
SortSlice ==
    /\ pc = "Slice"
    /\ \E sorted \in SliceOrders(locals.Terms, DOMAIN locals.Terms) :
          locals' = [ locals EXCEPT !.Terms = sorted ]
    /\ pc' = "WriteFile"
    /\ UNCHANGED << mainIdle, stderr, args, file, stdout, trace, ret >>

\* yaml.Marshal, the loop over the lines and os.WriteFile.  yaml.Marshal
\* does not fail on a Dictionary.
SortWriteFile ==
    /\ pc = "WriteFile"
    /\ trace' = Append(trace, "WriteFile")
    /\ IF args.write = "error"
       THEN /\ file' \in { file, File(<< >>) }
            /\ ret' = Error("failed to write the file")
            /\ stdout' = Append(stdout, "writing")
       ELSE /\ file' = File(formattedLines(MarshalLines(locals.Terms)))
            /\ ret' = Error(NoError)
            /\ stdout' = stdout \o << "writing", "sorted count", "done" >>
    /\ pc' = "returned"
    /\ UNCHANGED << mainIdle, stderr, args, locals >>

NextSort ==
    \/ SortReadFile
    \/ SortUnmarshal
    \/ SortSlice
    \/ SortWriteFile

SpecSort == InitSort /\ [][NextSort]_vars

(* ---------------------------- C28, C29 -------------------------------- *)

SortWritten == pc = "returned" /\ ret.err = NoError

IsTermLine(l) == l.head = "    - term:"

\* The terms of the written file, in the order of their lines.
WrittenTerms ==
    LET termLines == SelectSeq(file.content, IsTermLine)
    IN  [ k \in DOMAIN termLines |-> termLines[k].value ]

Count(s, e) == Cardinality({ k \in DOMAIN s : s[k] = e })

Dotted(term) == term # << >> /\ Head(term) = "."

\* C28: the entries sortDictFile writes are the entries it read, each as
\* often as it was read; every term that does not start with a dot stands
\* before every term that does; and within each of the two groups the
\* lower-cased terms do not decrease.
C28_SortedPermutation ==
    SortWritten =>
        LET in == args.input.terms
            out == locals.Terms
        IN  /\ Len(out) = Len(in)
            /\ \A e \in SortEntries : Count(out, e) = Count(in, e)
            /\ WrittenTerms = [ k \in DOMAIN out |-> out[k].Term ]
            /\ \A i, j \in DOMAIN out :
                  i < j =>
                    /\ ~(Dotted(out[i].Term) /\ ~Dotted(out[j].Term))
                    /\ Dotted(out[i].Term) = Dotted(out[j].Term) =>
                         ~StringLess(ToLower(out[j].Term), ToLower(out[i].Term))

\* A list that was out of order in both groups and across them was sorted.
C28_Witness ==
    /\ SortWritten
    /\ Len(args.input.terms) = MaxSortLen
    /\ locals.Terms # args.input.terms
    /\ \E i, j \in DOMAIN locals.Terms :
          /\ i < j
          /\ ~Dotted(locals.Terms[i].Term) /\ Dotted(locals.Terms[j].Term)
    /\ \E i \in DOMAIN locals.Terms : locals.Terms[i].Term = << "B" >>
    /\ \E i \in DOMAIN locals.Terms : locals.Terms[i].Term = << "a" >>

\* C29: in the written file the "- term:" line of the first entry follows
\* the "terms:" line directly, and the "- term:" line of every other entry
\* has an empty line before it.
C29_EmptyLineBetweenEntries ==
    SortWritten =>
        LET lines == file.content
            first == { k \in DOMAIN lines :
                         IsTermLine(lines[k]) /\ \A m \in 1..(k - 1) : ~IsTermLine(lines[m]) }
        IN  \A k \in DOMAIN lines :
                IsTermLine(lines[k]) =>
                    /\ k > 1
                    /\ IF k \in first
                       THEN lines[k - 1].head = "terms:"
                       ELSE lines[k - 1] = EmptyLine

(* ------------------------------- C30 ---------------------------------- *)

\* The orders of the list that pass the validation loop.
ValidatedOrders ==
    { sorted \in SortedOrders(patches, DOMAIN patches) :
        ValidatePatches(content, sorted, 1) = "" }

\* C30: for every original and every patch list, with offsets below 0 or
\* beyond the buffer, Start > End, duplicates and overlaps among them,
\* ApplyPatches returns either an error and no buffer or a buffer and no
\* error, and every slice the reconstruction takes of the original has
\* 0 <= lastIndex <= Start <= End <= len(original).
C30_Total ==
    /\ Called =>
         /\ Failed \/ Succeeded
         /\ ~(Failed /\ Succeeded)
         /\ Failed => ret.err \in { ErrBounds, ErrOverlap }
                      /\ ValidatedOrders # SortedOrders(patches, DOMAIN patches)
         /\ Succeeded => ValidatedOrders # {}
         /\ Succeeded => Len(ret.buf) >= 0 /\ (ret.isNil <=> ret.buf = << >>)
    /\ \A sorted \in ValidatedOrders :
         LET taken == SlicesTaken(content, sorted, 1, 0)
         IN  /\ Len(taken) = Len(sorted) + 1
             /\ \A k \in DOMAIN taken :
                   /\ 0 <= taken[k].low
                   /\ taken[k].low <= taken[k].high
                   /\ taken[k].high <= taken[k].End
                   /\ taken[k].End <= Len(content)

\* Two patches given out of order, the second beginning where the first
\* ends, were applied to an original with bytes left after them.
C30_Witness ==
    /\ Called /\ Succeeded
    /\ Len(patches) = 2
    /\ patches[2].End = patches[1].Start
    /\ patches[2].Start < patches[2].End
    /\ patches[1].End < Len(content)

=============================================================================
